---- MODULE Spec2Model ----
(***************************************************************************)
(* The load engine of IntegramTable (assets/js/integram-table.js): the     *)
(* page fetches of loadData with their lookahead row, the total count,     *)
(* the reset triggers (filter edits, operator changes, clearAllFilters,    *)
(* page size, reload, resetSettings, saves) and the two timers.            *)
(*                                                                         *)
(* JavaScript runs one handler at a time, so every handler, and every      *)
(* continuation after an await, is one atomic action.  A fetch is a        *)
(* request held in a sequence of outstanding requests until the action     *)
(* that applies its response takes it out.                                 *)
(*                                                                         *)
(* Spec runs the engine with its handlers.  The pure parts are run on      *)
(* their own over their inputs: applyFilter (SpecCodec), the hiding rules  *)
(* of processColumnVisibility (SpecNames), the payload normalisation       *)
(* (SpecPayload).  SpecFit is the auto-append of a table that never fills  *)
(* its viewport, SpecColumns the column state across fetches and visits,   *)
(* SpecCount the count link with every answer of the count endpoint.       *)
(* SpecSave is one submission of the edit form with every answer of the    *)
(* server, SpecTwice and SpecLost reload() called while a fetch is         *)
(* outstanding, SpecRows the rows held against the rows of the backend,    *)
(* SpecSizes the page size changed under an outstanding fetch,             *)
(* SpecReorder the drag of a column header.  SpecLegacy is the paged       *)
(* table of assets/js/info.js: pages turned and filters edited while its   *)
(* fetches are outstanding.                                                *)
(***************************************************************************)
EXTENDS Integers, Sequences, FiniteSets, TLC

\* ---------------------------------------------------------------- bounds
\* Rows the backend holds before any record is created.
MaxRows == 2
\* Records created through the edit form during a run.
MaxCreates == 1
\* Page sizes the user picks in the settings dialog are 1..MaxPageSize.
MaxPageSize == 1
\* checkAndLoadMore timers pending at once.
MaxCheckTimers == 1
\* Count requests outstanding at once.
MaxCountReqs == 1
\* Pending debounce timers the model follows.
MaxFilterTimers == 2
\* Tokens of a raw filter value handed to applyFilter on its own.
MaxValueLen == 4
\* Rows of the backend and page sizes of the fit-on-screen runs.
MaxFitRows == 12
MaxFitPageSize == 3
\* Columns of a response whose names the hiding rules are run on.
MaxNameCols == 4
\* Rows and columns of a table whose payload is normalised on its own.
MaxTableRows == 2
MaxTableCols == 2
\* Rows of the backend and page sizes where the page size is changed while a
\* fetch is outstanding.
MaxRaceRows == 4
MaxRacePageSize == 2
\* The paged table of info.js: rows of the backend, the highest page turned
\* to, and fetches outstanding at once.
MaxLegacyRows == 3
MaxLegacyPage == 2
MaxLegacyReqs == 2

\* ------------------------------------------------------- program constants
\* totalRows = null: the total is unknown.
Null == -1
\* parseInt of a text that does not start with a number.
NaN == -2
\* The page size resetSettings restores.
DefaultPageSize == 20

\* The columns of the modelled table and the ids the API returns for them.
AllCols == {"c1"}
\* A column name is a sequence of tokens: <<"Client", "ID">> is ClientID.
\* json.columns of every response, in the API's order.
ColumnList == <<[id |-> "c1", name |-> <<"Client">>]>>
\* columns.map(c => c.id) and the set of those ids.
Ids(cols) == [i \in DOMAIN cols |-> cols[i].id]
ColumnIds(cols) == {cols[i].id : i \in DOMAIN cols}
\* Widths a column is dragged to (Math.max(50, ...)).
Widths == {50}
\* The operator symbols and raw values the user enters in the model.
OpChoices == {"^", "=", "%", "!%"}
FilterValues == {<<>>, <<"a">>}
PageSizes == 1..MaxPageSize

Min(a, b) == IF a < b THEN a ELSE b

\* -------------------------------------------------------------- Filter codec
\* Text is a sequence of tokens: a raw value <<"t", ",", "5">>, a format
\* string <<"FR_", "{ T }", "=", "{ X }", "%">>.  ASCII stands for the three
\* comparison signs of the operator table: "<>" not equal, ">=" not less,
\* "<=" not greater.

\* The first index at which pat occurs in s, 0 when it does not.
IndexOf(s, pat) ==
    LET at == {i \in 1..(Len(s) - Len(pat) + 1) : SubSeq(s, i, i + Len(pat) - 1) = pat}
    IN  IF at = {} THEN 0 ELSE CHOOSE i \in at : \A j \in at : i <= j

\* The replacement text of String.prototype.replace: "$$" inserts "$" and
\* "$&" inserts the matched text.
RECURSIVE Expand(_, _)
Expand(rep, pat) ==
    IF rep = <<>> THEN <<>>
    ELSE (CASE Head(rep) = "$$" -> <<"$">>
            [] Head(rep) = "$&" -> pat
            [] OTHER -> <<Head(rep)>>) \o Expand(Tail(rep), pat)

\* s.replace(pat, rep) with a string pattern: the first occurrence only.
Replace(s, pat, rep) ==
    LET i == IndexOf(s, pat)
    IN  IF i = 0 THEN s
        ELSE SubSeq(s, 1, i - 1) \o Expand(rep, pat) \o SubSeq(s, i + Len(pat), Len(s))

\* filterTypes['CHARS']: symbol -> format.
CharsFilterTypes ==
    [s \in {"^", "=", "<>", "~", "!", "!^", "%", "!%", "(,)", "$"} |->
        CASE s = "^"   -> <<"FR_", "{ T }", "=", "{ X }", "%">>
          [] s = "="   -> <<"FR_", "{ T }", "=", "{ X }">>
          [] s = "<>"  -> <<"FR_", "{ T }", "=", "!", "{ X }">>
          [] s = "~"   -> <<"FR_", "{ T }", "=", "%", "{ X }", "%">>
          [] s = "!"   -> <<"FR_", "{ T }", "=", "!", "%", "{ X }", "%">>
          [] s = "!^"  -> <<"FR_", "{ T }", "=", "!", "%", "{ X }">>
          [] s = "%"   -> <<"FR_", "{ T }", "=", "%">>
          [] s = "!%"  -> <<"FR_", "{ T }", "=", "!", "%">>
          [] s = "(,)" -> <<"FR_", "{ T }", "=", "IN(", "{ X }", ")">>
          [] s = "$"   -> <<"FR_", "{ T }", "=", "%", "{ X }">>]

\* filterTypes['NUMBER'].
NumberFilterTypes ==
    [s \in {"^", "=", "<>", ">=", "<=", ">", "<", "...", "%", "!%"} |->
        CASE s = "^"   -> <<"FR_", "{ T }", "=", "{ X }", "%">>
          [] s = "="   -> <<"FR_", "{ T }", "=", "{ X }">>
          [] s = "<>"  -> <<"FR_", "{ T }", "=", "!", "{ X }">>
          [] s = ">="  -> <<"FR_", "{ T }", "=", ">", "=", "{ X }">>
          [] s = "<="  -> <<"FR_", "{ T }", "=", "<", "=", "{ X }">>
          [] s = ">"   -> <<"FR_", "{ T }", ">", "{ X }">>
          [] s = "<"   -> <<"FR_", "{ T }", "<", "{ X }">>
          [] s = "..." -> <<"FR_", "{ T }", "=", "{ X1 }", "&", "TO_", "{ T }", "=", "{ X2 }">>
          [] s = "%"   -> <<"FR_", "{ T }", "=", "%">>
          [] s = "!%"  -> <<"FR_", "{ T }", "=", "!", "%">>]

\* filterTypes['DATE'].
DateFilterTypes ==
    [s \in {"=", ">=", "<=", ">", "<", "...", "%", "!%"} |-> NumberFilterTypes[s]]

Formats == {"CHARS", "SHORT", "MEMO", "NUMBER", "SIGNED", "DATE", "DATETIME"}

\* An operator table in which the temporal kinds share the numeric list.
filterTypesDateAsNumber(format) ==
    CASE format \in {"NUMBER", "SIGNED", "DATE", "DATETIME"} -> NumberFilterTypes
      [] OTHER                                              -> CharsFilterTypes

\* this.filterTypes[format] || this.filterTypes['SHORT']
filterTypes(format) ==
    CASE format \in {"NUMBER", "SIGNED"}  -> NumberFilterTypes
      [] format \in {"DATE", "DATETIME"}  -> DateFilterTypes
      [] OTHER                            -> CharsFilterTypes

\* value.split(',').map(v => v.trim()): the parts between the commas, without
\* their leading and trailing blanks.
RECURSIVE Split(_)
Split(value) ==
    LET i == IndexOf(value, <<",">>)
    IN  IF i = 0 THEN <<value>>
        ELSE <<SubSeq(value, 1, i - 1)>> \o Split(SubSeq(value, i + 1, Len(value)))

\* A trim of the leading blanks only.
RECURSIVE TrimStart(_)
TrimStart(v) ==
    IF v = <<>> THEN v
    ELSE IF Head(v) = " " THEN TrimStart(Tail(v))
    ELSE v

RECURSIVE Trim(_)
Trim(v) ==
    IF v = <<>> THEN v
    ELSE IF Head(v) = " " THEN Trim(Tail(v))
    ELSE IF v[Len(v)] = " " THEN Trim(SubSeq(v, 1, Len(v) - 1))
    ELSE v

\* applyFilter(params, column, filter): the parameters it appends, as
\* <<name, value>> pairs; format and colId are the column's.
applyFilter(format, colId, filter) ==
    LET type        == IF filter.type = "" THEN "^" ELSE filter.type
        value       == filter.value
        filterGroup == filterTypes(IF format = "" THEN "SHORT" ELSE format)
    IN  IF type \notin DOMAIN filterGroup THEN {}
        ELSE IF type = "..."
             THEN LET values == [i \in DOMAIN Split(value) |-> Trim(Split(value)[i])]
                  IN  IF Len(values) >= 2
                      THEN {<<"FR_" \o colId, values[1]>>, <<"TO_" \o colId, values[2]>>}
                      ELSE {}
        ELSE IF type = "%" \/ type = "!%"
             THEN {<<"FR_" \o colId, IF type = "%" THEN <<"%">> ELSE <<"!", "%">> >>}
             ELSE LET substituted == Replace(Replace(filterGroup[type], <<"{ T }">>, <<colId>>),
                                             <<"{ X }">>, value)
                      paramValue  == Replace(substituted, <<"FR_", colId, "=">>, <<>>)
                  IN  {<<"FR_" \o colId, paramValue>>}

\* The format of the modelled table's columns: text.
ColFormat == [c \in AllCols |-> "SHORT"]

\* A filter loop that sends only the filters holding a value.
FilterParamsValueOnly(flt, cols) ==
    UNION {applyFilter(ColFormat[c], c, flt[c]) :
             c \in {d \in DOMAIN flt : flt[d].value # <<>> /\ d \in ColumnIds(cols)}}

\* The filter loop of loadData and fetchTotalCount: a filter is sent when it
\* has a value or is one of the two valueless kinds, and its column is known.
FilterParams(flt, cols) ==
    UNION {applyFilter(ColFormat[c], c, flt[c]) :
             c \in {d \in DOMAIN flt :
                      /\ (flt[d].value # <<>> \/ flt[d].type = "%" \/ flt[d].type = "!%")
                      /\ d \in ColumnIds(cols)}}

\* ------------------------------------------------------------- Record API
\* The rows the API holds are numbered 1..n; a filtered query selects the
\* odd-numbered ones.
Result(params, n) ==
    LET all == [i \in 1..n |-> i]
    IN  IF params = {} THEN all ELSE SelectSeq(all, LAMBDA r : r % 2 = 1)

\* LIMIT=<offset>,<count> over a result.
Slice(rows, offset, count) ==
    SubSeq(rows, offset + 1, Min(offset + count, Len(rows)))

RemoveAt(s, i) == SubSeq(s, 1, i - 1) \o SubSeq(s, i + 1, Len(s))

\* ------------------------------------------------------------------ state
VARIABLES
    data,           \* this.data: the rows held
    loadedRecords,  \* this.loadedRecords
    totalRows,      \* this.totalRows (Null = unknown)
    hasMore,        \* this.hasMore
    isLoading,      \* this.isLoading
    filters,        \* this.filters: column id -> [type, value]
    columns,        \* this.columns: [id, name] records
    pageSize,       \* this.options.pageSize
    filterTimeout,  \* pending debounce timers of the filter inputs
    checkTimers,    \* pending checkAndLoadMore timers
    view,           \* what the container shows: "none", "table" or "error"
    scrollListener, \* render() has attached the scroll listener
    pageReqs,       \* outstanding loadData fetches
    countReqs,      \* outstanding fetchTotalCount fetches
    refreshReqs,    \* outstanding refreshWithNewRecord fetches (the created ids)
    backendRows,    \* rows the Record API holds
    created,        \* records created so far
    session,        \* the kind of run, see Init
    columnOrder,    \* this.columnOrder
    visibleColumns, \* this.visibleColumns
    columnWidths,   \* this.columnWidths: column id -> pixels
    idColumns,      \* this.idColumns: ids of the hidden auxiliary columns
    styleColumns,   \* this.styleColumns: base column id -> style column id
    editableColumns, \* this.editableColumns: base column id -> ID column id
    call,           \* an applyFilter call made on its own: its arguments
    emitted,        \* ... and the parameters it appended
    payload,        \* json.data of a response normalised on its own
    normalized,     \* ... and the rows and hasMore loadData makes of it
    currentPage     \* this.currentPage of the paged table of info.js

engine == <<data, loadedRecords, totalRows, hasMore, isLoading, filters, columns, pageSize>>
timers == <<filterTimeout, checkTimers>>
dom    == <<view, scrollListener>>
net    == <<pageReqs, countReqs, refreshReqs, backendRows, created>>
marks  == <<idColumns, styleColumns, editableColumns>>
layout == <<columnOrder, visibleColumns, columnWidths, marks>>
codec  == <<call, emitted, payload, normalized, currentPage>>
vars   == <<engine, timers, dom, net, session, codec, layout>>

InSession(kinds) == session \in kinds \cup {"all"}

EmptyFilters == [c \in {} |-> [type |-> "^", value |-> <<>>]]

\* The engine fields a handler works on before it calls loadData.
Cur == [data |-> data, loadedRecords |-> loadedRecords, hasMore |-> hasMore,
        totalRows |-> totalRows, filters |-> filters, pageSize |-> pageSize,
        pageReqs |-> pageReqs]

\* ---------------------------------------------------------------- loadData
LoadGuardNoLoadingCheck(append, loading, more, loaded) ==
    ~append /\ ~more /\ loaded > 0

\* The early return of loadData.
LoadGuard(append, loading, more, loaded) ==
    loading \/ (~append /\ ~more /\ loaded > 0)

\* const requestSize = this.options.pageSize + 1
RequestSize(ps) == ps + 1

RequestOffsetByPage(append, loaded) == IF append THEN loaded + 1 ELSE 0

\* const offset = append ? this.loadedRecords : 0
RequestOffset(append, loaded) == IF append THEN loaded ELSE 0

\* A loadData(append) call made now passes the early return and fetches.
Issues(append) == ~LoadGuard(append, isLoading, hasMore, loadedRecords)

\* loadData(append) up to its first await, called on the fields s.
LoadData(append, s) ==
    LET skip == LoadGuard(append, isLoading, s.hasMore, s.loadedRecords)
        req  == [append |-> append,
                 offset |-> RequestOffset(append, s.loadedRecords),
                 count  |-> RequestSize(s.pageSize),
                 params |-> FilterParams(s.filters, columns),
                 stale  |-> FALSE]
    IN  /\ data' = s.data
        /\ loadedRecords' = s.loadedRecords
        /\ hasMore' = s.hasMore
        /\ totalRows' = s.totalRows
        /\ filters' = s.filters
        /\ pageSize' = s.pageSize
        /\ columns' = columns
        /\ isLoading' = (IF skip THEN isLoading ELSE TRUE)
        /\ pageReqs' = (IF skip THEN s.pageReqs ELSE Append(s.pageReqs, req))

\* table.loadData() and table.loadData(true) called directly.
ApiLoadData(append) ==
    /\ LoadData(append, Cur)
    /\ UNCHANGED <<timers, dom, countReqs, refreshReqs, backendRows, created, session, codec, layout>>

\* ------------------------------------------------------- the page response
HasMoreOfFullPage(n, ps) == n >= ps

\* this.hasMore = newRows.length > this.options.pageSize
HasMoreOf(n, ps) == n > ps

\* if (this.hasMore) newRows = newRows.slice(0, pageSize)
Truncate(rows, more, ps) == IF more THEN SubSeq(rows, 1, Min(ps, Len(rows))) ELSE rows

\* Append or replace data.
MergeRows(append, old, newRows) == IF append THEN old \o newRows ELSE newRows

\* loadedRecords after the merge.
MergeCount(append, loaded, newRows) ==
    (IF append THEN loaded ELSE 0) + Len(newRows)

AutoTotalAlways(more, total, loaded) ==
    IF total = Null THEN loaded ELSE total

\* Auto-set total count if we've reached the end.
AutoTotal(more, total, loaded) ==
    IF ~more /\ total = Null THEN loaded ELSE total

\* The rows the API returns for page request r.
Returned(r) == Slice(Result(r.params, backendRows), r.offset, r.count)

\* ------------------------------------------------ processColumnVisibility
\* name.toLowerCase(), token by token.  "Stil" and "stil" stand for the
\* Cyrillic suffix in its two cases.
LowerToken(t) ==
    CASE t = "Client" -> "client"
      [] t = "Status" -> "status"
      [] t = "ID"     -> "id"
      [] t = "Id"     -> "id"
      [] t = "Style"  -> "style"
      [] t = "STYLE"  -> "style"
      [] t = "Stil"   -> "stil"
      [] OTHER        -> t

toLowerCase(name) == [i \in DOMAIN name |-> LowerToken(name[i])]

\* name.endsWith(suffix) for a suffix that is one token.
endsWith(name, suffix) == name # <<>> /\ name[Len(name)] = suffix

\* name.slice(0, -2) and name.slice(0, -5) when the suffix is the last token.
SliceSuffix(name) == SubSeq(name, 1, Len(name) - 1)

\* The property names every object inherits from Object.prototype, as far
\* as column names of the model can hit them.
ObjectPrototypeNames == {<<"constructor">>}

\* columnsByName: the index of the column stored under a name, the last of
\* that name, 0 when there is none.
ByNameIndex(cols, name) ==
    LET at == {i \in DOMAIN cols : cols[i].name = name}
    IN  IF at = {} THEN 0 ELSE CHOOSE i \in at : \A j \in at : j <= i

\* if (columnsByName[baseName]): columnsByName is a plain object, so the
\* lookup also finds what Object.prototype holds under that name.
ByNameFound(cols, name) ==
    ByNameIndex(cols, name) > 0 \/ name \in ObjectPrototypeNames

\* columnsByName[baseName].id
ByNameId(cols, name) ==
    IF ByNameIndex(cols, name) > 0 THEN cols[ByNameIndex(cols, name)].id ELSE "undefined"

\* The ID rule hides column i.
IdRule(cols, i) ==
    /\ endsWith(cols[i].name, "ID")
    /\ ByNameFound(cols, SliceSuffix(cols[i].name))

\* this.columns.find(c => c.name.toLowerCase() === baseName.toLowerCase()):
\* the index of the first such column, 0 when there is none.
BaseColIndex(cols, baseName) ==
    LET at == {i \in DOMAIN cols : toLowerCase(cols[i].name) = toLowerCase(baseName)}
    IN  IF at = {} THEN 0 ELSE CHOOSE i \in at : \A j \in at : i <= j

\* A suffix test that looks at the name as it is written.
HasStyleSuffixExactCase(name) == endsWith(name, "Style") \/ endsWith(name, "Stil")

\* lowerName.endsWith(...) for the two style suffixes.
HasStyleSuffix(name) ==
    endsWith(toLowerCase(name), "stil") \/ endsWith(toLowerCase(name), "style")

\* The style rule hides column i.
StyleRule(cols, i) ==
    /\ HasStyleSuffix(cols[i].name)
    /\ BaseColIndex(cols, SliceSuffix(cols[i].name)) > 0

\* The last element of a non-empty set of indices.
Last(S) == CHOOSE i \in S : \A j \in S : j <= i

\* processColumnVisibility(): the three collections are cleared and filled
\* again, column by column; a later column overwrites an earlier entry.
processColumnVisibility(cols) ==
    LET idRows    == {i \in DOMAIN cols : IdRule(cols, i)}
        styleRows == {i \in DOMAIN cols : StyleRule(cols, i)}
        editKey(i)  == ByNameId(cols, SliceSuffix(cols[i].name))
        styleKey(i) == cols[BaseColIndex(cols, SliceSuffix(cols[i].name))].id
    IN  [idColumns       |-> {cols[i].id : i \in idRows \cup styleRows},
         editableColumns |-> [k \in {editKey(i) : i \in idRows} |->
                                 cols[Last({i \in idRows : editKey(i) = k})].id],
         styleColumns    |-> [k \in {styleKey(i) : i \in styleRows} |->
                                 cols[Last({i \in styleRows : styleKey(i) = k})].id]]

\* The collections as the constructor and the first lines of
\* processColumnVisibility leave them.
NoMarks == processColumnVisibility(<<>>)

\* ------------------------------------------------- the API's column lists
ColIds == <<"c1", "c2", "c3", "c4">>

\* The column names the hiding rules are run on.
Names ==
    {<<>>, <<"Client">>, <<"client">>, <<"Client", "ID">>, <<"Client", "Id">>,
     <<"Status">>, <<"Status", "Style">>, <<"status", "STYLE">>, <<"Status", "Stil">>,
     <<"Style">>, <<"ID">>, <<"constructor", "ID">>}

\* Responses of up to max columns with any of these names.
NameLists(max) ==
    UNION {{[i \in 1..n |-> [id |-> ColIds[i], name |-> f[i]]] : f \in [1..n -> Names]} :
             n \in 1..max}

\* The columns of a report that changes between fetches: c2 is the ID
\* column of c1.
Pool == <<[id |-> "c1", name |-> <<"Client">>],
          [id |-> "c2", name |-> <<"Client", "ID">>],
          [id |-> "c3", name |-> <<"Status">>]>>

\* Every selection of the report's columns in every order.
PoolLists ==
    {[i \in DOMAIN f |-> Pool[f[i]]] :
       f \in {g \in UNION {[1..n -> DOMAIN Pool] : n \in 1..Len(Pool)} :
                \A i, j \in DOMAIN g : g[i] = g[j] => i = j}}

\* json.columns of a response, by the kind of run.
ApiColumns ==
    IF session = "names" THEN NameLists(MaxNameCols)
    ELSE IF session \in {"columns", "reorder"} THEN PoolLists
    ELSE {ColumnList}

\* if (this.columnOrder.length === 0) this.columnOrder = columns.map(c => c.id)
DefaultOrder(order, cols) == IF order = <<>> THEN cols ELSE order

\* visibleColumns: the columns that are not auxiliary when it is empty,
\* otherwise what it held without the auxiliary ones.
DefaultVisible(visible, cols, hidden) ==
    SelectSeq(IF visible = <<>> THEN cols ELSE visible, LAMBDA c : c \notin hidden)

\* Lines 176-186 on the columns of the response.
ColumnsLoaded(cols) ==
    LET pcv == processColumnVisibility(cols)
    IN  /\ idColumns' = pcv.idColumns
        /\ styleColumns' = pcv.styleColumns
        /\ editableColumns' = pcv.editableColumns
        /\ columnOrder' = DefaultOrder(columnOrder, Ids(cols))
        /\ visibleColumns' = DefaultVisible(visibleColumns, Ids(cols), pcv.idColumns)

LoadingAfterOnlyOnSuccess(threw) == threw

\* finally { this.isLoading = false }: however the try block ended.
LoadingAfter(threw) == FALSE

\* The response of page request i arrives; ok = the fetch and the decoding
\* succeeded.  The finally block clears isLoading and schedules the
\* fit-on-screen check.
PageResponse(i, ok) ==
    /\ i \in 1..Len(pageReqs)
    /\ checkTimers < MaxCheckTimers
    /\ LET r       == pageReqs[i]
           rows    == Returned(r)
           more    == HasMoreOf(Len(rows), pageSize)
           newRows == Truncate(rows, more, pageSize)
           loaded  == MergeCount(r.append, loadedRecords, newRows)
       IN  IF ok
           THEN /\ \E cols \in ApiColumns :
                     /\ columns' = cols
                     /\ ColumnsLoaded(cols)
                /\ hasMore' = more
                /\ data' = MergeRows(r.append, data, newRows)
                /\ loadedRecords' = loaded
                /\ totalRows' = AutoTotal(more, totalRows, loaded)
                /\ view' = "table"
                /\ scrollListener' = TRUE
           ELSE /\ view' = (IF r.append THEN view ELSE "error")
                /\ UNCHANGED <<columns, hasMore, data, loadedRecords, totalRows,
                               scrollListener, columnOrder, visibleColumns, marks>>
    /\ isLoading' = LoadingAfter(~ok)
    /\ checkTimers' = checkTimers + 1
    /\ pageReqs' = RemoveAt(pageReqs, i)
    /\ UNCHANGED <<filters, pageSize, filterTimeout, countReqs, refreshReqs,
                   backendRows, created, session, codec, columnWidths>>

\* The response of page request i arrives and is decoded, and something
\* after the merge throws inside the try block: processColumnVisibility on
\* a column without a name, which here comes first in the response and is
\* followed by the named columns (late = FALSE), or the onDataLoad callback
\* or render() (late = TRUE).  The catch block logs, shows the placeholder for
\* a reset load, and the finally block runs as ever.
PageResponseThrows(i, late) ==
    /\ i \in 1..Len(pageReqs)
    /\ checkTimers < MaxCheckTimers
    /\ LET r       == pageReqs[i]
           rows    == Returned(r)
           more    == HasMoreOf(Len(rows), pageSize)
           newRows == Truncate(rows, more, pageSize)
           loaded  == MergeCount(r.append, loadedRecords, newRows)
       IN  /\ \E cols \in ApiColumns :
                /\ columns' = cols
                /\ IF late
                   THEN ColumnsLoaded(cols)
                   ELSE /\ idColumns' = NoMarks.idColumns
                        /\ styleColumns' = NoMarks.styleColumns
                        /\ editableColumns' = NoMarks.editableColumns
                        /\ UNCHANGED <<columnOrder, visibleColumns>>
           /\ hasMore' = more
           /\ data' = MergeRows(r.append, data, newRows)
           /\ loadedRecords' = loaded
           /\ totalRows' = AutoTotal(more, totalRows, loaded)
           /\ view' = (IF r.append THEN view ELSE "error")
    /\ isLoading' = LoadingAfter(TRUE)
    /\ checkTimers' = checkTimers + 1
    /\ pageReqs' = RemoveAt(pageReqs, i)
    /\ UNCHANGED <<filters, pageSize, filterTimeout, scrollListener, countReqs,
                   refreshReqs, backendRows, created, session, codec, columnWidths>>

\* ------------------------------------------------------- fetchTotalCount
\* fetchTotalCount() up to its await: the "?" of the counter or a direct call.
FetchTotalCount ==
    /\ Len(countReqs) < MaxCountReqs
    /\ countReqs' = Append(countReqs,
                           [params |-> FilterParams(filters, columns), stale |-> FALSE])
    /\ UNCHANGED <<engine, timers, dom, pageReqs, refreshReqs, backendRows, created,
                   session, codec, layout>>

\* this.totalRows = parseInt(result.count, 10)
CountOf(params, n) == Len(Result(params, n))

\* The response of count request i arrives.
CountResponse(i, ok) ==
    /\ i \in 1..Len(countReqs)
    /\ IF ok
       THEN /\ totalRows' = CountOf(countReqs[i].params, backendRows)
            /\ view' = "table"
            /\ scrollListener' = TRUE
       ELSE UNCHANGED <<totalRows, view, scrollListener>>
    /\ countReqs' = RemoveAt(countReqs, i)
    /\ UNCHANGED <<data, loadedRecords, hasMore, isLoading, filters, columns, pageSize,
                   timers, pageReqs, refreshReqs, backendRows, created, session, codec, layout>>

\* The response of count request i arrives and decodes to a body that holds
\* no numeric count ({} or {"count": "n/a"}): parseInt gives NaN, which is
\* stored and rendered.
CountResponseNoCount(i) ==
    /\ session = "count"
    /\ i \in 1..Len(countReqs)
    /\ totalRows' = NaN
    /\ view' = "table"
    /\ scrollListener' = TRUE
    /\ countReqs' = RemoveAt(countReqs, i)
    /\ UNCHANGED <<data, loadedRecords, hasMore, isLoading, filters, columns, pageSize,
                   timers, pageReqs, refreshReqs, backendRows, created, session, codec, layout>>

\* ---------------------------------------------------------- reset triggers
ResetStateKeepTotal(s) ==
    [s EXCEPT !.data = <<>>, !.loadedRecords = 0, !.hasMore = TRUE]

\* The four assignments every reset trigger makes before loadData(false).
ResetState(s) ==
    [s EXCEPT !.data = <<>>, !.loadedRecords = 0, !.hasMore = TRUE, !.totalRows = Null]

\* Outstanding requests whose filter parameters differ from `params` were
\* requested under other filters.
MarkStale(reqs, params) ==
    [i \in DOMAIN reqs |-> [reqs[i] EXCEPT !.stale = @ \/ reqs[i].params # params]]

\* A handler resets the fields s and calls loadData(false).
ResetAndLoad(s) ==
    LET params == FilterParams(s.filters, columns)
    IN  /\ LoadData(FALSE, [ResetState(s) EXCEPT !.pageReqs = MarkStale(s.pageReqs, params)])
        /\ countReqs' = MarkStale(countReqs, params)

SetFilter(flt, colId, f) ==
    [c \in DOMAIN flt \cup {colId} |-> IF c = colId THEN f ELSE flt[c]]

FilterOf(flt, colId) ==
    IF colId \in DOMAIN flt THEN flt[colId] ELSE [type |-> "^", value |-> <<>>]

ClearTimeoutNever(pending) == pending

\* clearTimeout(this.filterTimeout): the timer whose handle is stored, the
\* one set last, is cancelled if it is still pending.
ClearTimeout(pending) == IF pending > 0 THEN pending - 1 ELSE 0

\* The 'input' event of a filter input: store the value, restart the timer.
FilterInput(colId, value) ==
    /\ InSession({"filters", "layout", "count"})
    /\ view = "table"
    /\ colId \in ColumnIds(columns)
    /\ value # FilterOf(filters, colId).value
    /\ ClearTimeout(filterTimeout) < MaxFilterTimers
    /\ filters' = SetFilter(filters, colId, [FilterOf(filters, colId) EXCEPT !.value = value])
    /\ filterTimeout' = ClearTimeout(filterTimeout) + 1
    /\ UNCHANGED <<data, loadedRecords, totalRows, hasMore, isLoading, columns, pageSize,
                   checkTimers, dom, net, session, codec, layout>>

\* The debounce timer fires, 500 ms after the last edit.
FilterTimeoutFire ==
    /\ filterTimeout > 0
    /\ filterTimeout' = filterTimeout - 1
    /\ ResetAndLoad(Cur)
    /\ UNCHANGED <<checkTimers, dom, refreshReqs, backendRows, created, session, codec, layout>>

TypeSelectReloadsAlways(colId, symbol) == TRUE

\* The operator click reloads: the valueless kinds always, the others when
\* the filter has a value.
TypeSelectReloads(colId, symbol) ==
    symbol = "%" \/ symbol = "!%" \/ FilterOf(filters, colId).value # <<>>

TypeSelectValueKept(symbol, value) == value

\* For the valueless kinds the click clears the value.
TypeSelectValue(symbol, value) ==
    IF symbol = "%" \/ symbol = "!%" THEN <<>> ELSE value

\* A click on an operator of the filter type menu.
FilterTypeSelect(colId, symbol) ==
    /\ InSession({"filters", "twice"})
    /\ view = "table"
    /\ colId \in ColumnIds(columns)
    /\ LET old == FilterOf(filters, colId)
           f   == [type |-> symbol, value |-> TypeSelectValue(symbol, old.value)]
       IN  IF TypeSelectReloads(colId, symbol)
           THEN ResetAndLoad([Cur EXCEPT !.filters = SetFilter(filters, colId, f)])
           ELSE /\ filters' = SetFilter(filters, colId, f)
                /\ UNCHANGED <<data, loadedRecords, totalRows, hasMore, isLoading,
                               columns, pageSize, pageReqs, countReqs>>
    /\ UNCHANGED <<timers, dom, refreshReqs, backendRows, created, session, codec, layout>>

ClearedFiltersKeepTypes(flt) == [c \in DOMAIN flt |-> [flt[c] EXCEPT !.value = <<>>]]

\* this.filters = {}
ClearedFilters(flt) == EmptyFilters

\* clearAllFilters(): the button of the header or a direct call.
ClearAllFilters ==
    /\ InSession({"filters"})
    /\ ResetAndLoad([Cur EXCEPT !.filters = ClearedFilters(filters)])
    /\ view' = "table"
    /\ scrollListener' = TRUE
    /\ UNCHANGED <<timers, refreshReqs, backendRows, created, session, codec, layout>>

\* reload(), also through reloadAllIntegramTables().
Reload ==
    /\ ResetAndLoad(Cur)
    /\ UNCHANGED <<timers, dom, refreshReqs, backendRows, created, session, codec, layout>>

SetPageSizeSettingsOnly(s, n) == s

\* this.settings.pageSize = n; this.options.pageSize = this.settings.pageSize
SetPageSize(s, n) == [s EXCEPT !.pageSize = n]

\* The page size select or the custom page size input of the settings dialog.
PageSizeChange(n) ==
    /\ InSession({"records", "layout"})
    /\ scrollListener
    /\ n > 0
    /\ ResetAndLoad(SetPageSize(Cur, n))
    /\ UNCHANGED <<timers, dom, refreshReqs, backendRows, created, session, codec, layout>>

\* resetSettings(): the defaults are restored and the table reloaded.
ResetSettings ==
    /\ InSession({"records", "layout"})
    /\ scrollListener
    /\ ResetAndLoad([Cur EXCEPT !.pageSize = DefaultPageSize])
    /\ columnOrder' = <<>>
    /\ visibleColumns' = <<>>
    /\ columnWidths' = [c \in {} |-> 0]
    /\ view' = "table"
    /\ scrollListener' = TRUE
    /\ UNCHANGED <<timers, refreshReqs, backendRows, created, session, codec, marks>>

\* A column's resize handle is dragged: the mousemove handler stores the
\* new width.
ColumnResize(colId, width) ==
    /\ InSession({"layout"})
    /\ view = "table"
    /\ colId \in ColumnIds(columns)
    /\ columnWidths' = [c \in DOMAIN columnWidths \cup {colId} |->
                           IF c = colId THEN width ELSE columnWidths[c]]
    /\ UNCHANGED <<engine, timers, dom, net, session, codec, columnOrder, visibleColumns, marks>>

\* ------------------------------------------------------------ auto-append
\* The scroll listener, with the table's end within 200px of the viewport's.
ScrollEvent ==
    /\ scrollListener
    /\ ~(isLoading \/ ~hasMore)
    /\ LoadData(TRUE, Cur)
    /\ UNCHANGED <<timers, dom, countReqs, refreshReqs, backendRows, created, session, codec, layout>>

\* A check that does not look at hasMore.
FitCheckLoadsWithoutMore(shown, loading, more, fits) ==
    shown = "table" /\ ~loading /\ fits

\* The timer callback of checkAndLoadMore loads when the table is shown, no
\* load is running, more rows exist and the table ends above the viewport's end.
FitCheckLoads(shown, loading, more, fits) ==
    shown = "table" /\ ~loading /\ more /\ fits

\* A checkAndLoadMore timer fires; fits = the table ends above the viewport's end.
CheckTimerFire(fits) ==
    /\ checkTimers > 0
    /\ checkTimers' = checkTimers - 1
    /\ IF FitCheckLoads(view, isLoading, hasMore, fits)
       THEN LoadData(TRUE, Cur)
       ELSE UNCHANGED <<engine, pageReqs>>
    /\ UNCHANGED <<filterTimeout, dom, countReqs, refreshReqs, backendRows, created,
                   session, codec, layout>>

\* ------------------------------------------------------------------ saves
\* saveRecord succeeded for an edit or a create that is followed by a full
\* reload; isCreate = the save added a record.
SaveReload(isCreate) ==
    /\ InSession({"records"})
    /\ scrollListener
    /\ isCreate => created < MaxCreates
    /\ backendRows' = (IF isCreate THEN backendRows + 1 ELSE backendRows)
    /\ created' = (IF isCreate THEN created + 1 ELSE created)
    /\ ResetAndLoad(Cur)
    /\ UNCHANGED <<timers, dom, refreshReqs, session, codec, layout>>

\* saveRecord succeeded for a create from a column header and returned the
\* new id: refreshWithNewRecord fetches that record.
SaveColumnCreate ==
    /\ InSession({"records"})
    /\ scrollListener
    /\ created < MaxCreates
    /\ backendRows' = backendRows + 1
    /\ created' = created + 1
    /\ refreshReqs' = Append(refreshReqs, backendRows + 1)
    /\ UNCHANGED <<engine, timers, dom, pageReqs, countReqs, session, codec, layout>>

InsertNewRowNoCount(s, row) ==
    [s EXCEPT !.data = <<row>> \o @,
              !.totalRows = IF @ # Null THEN @ + 1 ELSE @]

\* this.data.unshift(newRow); this.loadedRecords++; totalRows++ if known.
InsertNewRow(s, row) ==
    [s EXCEPT !.data = <<row>> \o @,
              !.loadedRecords = @ + 1,
              !.totalRows = IF @ # Null THEN @ + 1 ELSE @]

\* The response of refresh fetch i: the new row, no row, or a failure.
RefreshResponse(i, outcome) ==
    /\ i \in 1..Len(refreshReqs)
    /\ refreshReqs' = RemoveAt(refreshReqs, i)
    /\ IF outcome = "row"
       THEN LET s == InsertNewRow(Cur, refreshReqs[i])
            IN  /\ data' = s.data
                /\ loadedRecords' = s.loadedRecords
                /\ totalRows' = s.totalRows
                /\ view' = "table"
                /\ scrollListener' = TRUE
                /\ UNCHANGED <<hasMore, isLoading, filters, columns, pageSize,
                               pageReqs, countReqs>>
       ELSE /\ ResetAndLoad(Cur)
            /\ UNCHANGED dom
    /\ UNCHANGED <<timers, backendRows, created, session, codec, layout>>

\* ------------------------------------------------------------------- Init
\* The state cookie as saveColumnState writes it; without a cookie the
\* three fields keep the values of the constructor, which are these.
NoCookie == [order |-> <<>>, visible |-> <<>>, widths |-> [c \in {} |-> 0]]

\* loadColumnState() on the cookie's state.
loadColumnState(state) ==
    /\ columnOrder = state.order
    /\ visibleColumns = state.visible
    /\ columnWidths = state.widths

\* The constructor: init() ends in loadData(), whose fetch is outstanding.
InitEngine(kinds, sizes, rows) ==
    /\ data = <<>>
    /\ loadedRecords = 0
    /\ totalRows = Null
    /\ hasMore = TRUE
    /\ isLoading = TRUE
    /\ filters = EmptyFilters
    /\ columns = <<>>
    /\ pageSize \in sizes
    /\ filterTimeout = 0
    /\ checkTimers = 0
    /\ view = "none"
    /\ scrollListener = FALSE
    /\ pageReqs = <<[append |-> FALSE, offset |-> RequestOffset(FALSE, 0),
                     count |-> RequestSize(pageSize), params |-> {}, stale |-> FALSE]>>
    /\ countReqs = <<>>
    /\ refreshReqs = <<>>
    /\ backendRows \in rows
    /\ created = 0
    /\ session \in kinds
    /\ idColumns = NoMarks.idColumns
    /\ styleColumns = NoMarks.styleColumns
    /\ editableColumns = NoMarks.editableColumns
    /\ emitted = {}
    /\ normalized = [rows |-> <<>>, hasMore |-> FALSE]
    /\ currentPage = 0

\* A first visit: no state cookie.
InitWith(kinds, sizes, rows) ==
    /\ InitEngine(kinds, sizes, rows)
    /\ loadColumnState(NoCookie)

InitOf(kinds) == InitWith(kinds, PageSizes, 0..MaxRows)

\* json.data as the response carries it: its elements in order, arrays =
\* they are arrays (Array.isArray), not row objects.  No payload is
\* normalised on its own in a run of the engine.
NoPayload == [arrays |-> TRUE, items |-> <<>>, table |-> <<>>, shape |-> "", done |-> TRUE]

\* No applyFilter call of its own is made in a run of the engine.
NoCall == [format |-> "", colId |-> "", type |-> "", value |-> <<>>, done |-> TRUE]

\* A run of Spec is a session of one kind: in a "filters" session the user
\* works with the filter row, in a "records" session with the settings
\* dialog and the edit form, in a "layout" session with the filter inputs,
\* the column widths and the settings dialog.  Public calls, the count link,
\* scrolling, the timers and every response occur in all of them.
Init == InitOf({"filters", "records", "layout"}) /\ call = NoCall /\ payload = NoPayload

\* A run of SpecAll mixes the handlers of both kinds freely.
InitAll == InitOf({"all"}) /\ call = NoCall /\ payload = NoPayload

Next ==
    \/ \E append \in BOOLEAN : ApiLoadData(append)
    \/ \E i \in 1..Len(pageReqs), ok \in BOOLEAN : PageResponse(i, ok)
    \/ \E i \in 1..Len(pageReqs), late \in BOOLEAN : PageResponseThrows(i, late)
    \/ FetchTotalCount
    \/ \E i \in 1..Len(countReqs), ok \in BOOLEAN : CountResponse(i, ok)
    \/ \E c \in AllCols, v \in FilterValues : FilterInput(c, v)
    \/ FilterTimeoutFire
    \/ \E c \in AllCols, t \in OpChoices : FilterTypeSelect(c, t)
    \/ ClearAllFilters
    \/ Reload
    \/ \E n \in PageSizes : PageSizeChange(n)
    \/ ResetSettings
    \/ \E c \in AllCols, w \in Widths : ColumnResize(c, w)
    \/ ScrollEvent
    \/ \E fits \in BOOLEAN : CheckTimerFire(fits)
    \/ \E isCreate \in BOOLEAN : SaveReload(isCreate)
    \/ SaveColumnCreate
    \/ \E i \in 1..Len(refreshReqs), o \in {"row", "empty", "fail"} : RefreshResponse(i, o)

Spec == Init /\ [][Next]_vars

\* ---------------------------------------------------- fit-on-screen runs
\* A table whose viewport is never filled, against an unchanging backend
\* whose fetches all succeed, with no user at work: the responses arrive and
\* the fit-on-screen timers fire, and neither is postponed for ever.
FitPageSizes == 1..MaxFitPageSize

InitFit == InitWith({"fit"}, FitPageSizes, 0..MaxFitRows) /\ call = NoCall /\ payload = NoPayload

FitResponse == \E i \in 1..Len(pageReqs) : PageResponse(i, TRUE)

FitCheck == CheckTimerFire(TRUE)

NextFit == FitResponse \/ FitCheck

SpecFit == InitFit /\ [][NextFit]_vars /\ WF_vars(FitResponse) /\ WF_vars(FitCheck)

\* ------------------------------------------- the hiding rules on their own
\* The first response of a table brings any of the column lists NameLists.
InitNames == InitWith({"names"}, {1}, {1}) /\ call = NoCall /\ payload = NoPayload

FirstResponse == \E i \in 1..Len(pageReqs) : PageResponse(i, TRUE)

NextNames == FirstResponse

SpecNames == InitNames /\ [][NextNames]_vars

\* ------------------------------------------------------ the column state
\* State cookies of earlier visits: none, one saved when the report had the
\* columns c1, c2, c3, one saved after the user ticked the ID column c2, and
\* one saved when the report had a column c4 that it has no more.
Cookies ==
    {NoCookie,
     [NoCookie EXCEPT !.order = <<"c1", "c2", "c3">>, !.visible = <<"c1", "c3">>],
     [NoCookie EXCEPT !.order = <<"c3", "c1", "c2">>, !.visible = <<"c3", "c2">>],
     [NoCookie EXCEPT !.order = <<"c4", "c1">>, !.visible = <<"c4", "c1">>]}

InitColumns ==
    /\ InitEngine({"columns"}, {1}, {1})
    /\ \E state \in Cookies : loadColumnState(state)
    /\ call = NoCall /\ payload = NoPayload

\* A checkbox of the column settings dialog changes; checked is its new state.
ColumnToggle(colId, checked) ==
    /\ session = "columns"
    /\ view = "table"
    /\ colId \in ColumnIds(columns)
    /\ visibleColumns' =
         (IF checked
          THEN IF \E i \in DOMAIN visibleColumns : visibleColumns[i] = colId
               THEN visibleColumns
               ELSE Append(visibleColumns, colId)
          ELSE SelectSeq(visibleColumns, LAMBDA id : id # colId))
    /\ scrollListener' = TRUE
    /\ UNCHANGED <<engine, timers, view, net, session, codec, columnOrder, columnWidths, marks>>

NextColumns ==
    \/ \E i \in 1..Len(pageReqs), ok \in BOOLEAN : PageResponse(i, ok)
    \/ Reload
    \/ \E c \in ColumnIds(columns), checked \in BOOLEAN : ColumnToggle(c, checked)
    \/ \E fits \in BOOLEAN : CheckTimerFire(fits)

SpecColumns == InitColumns /\ [][NextColumns]_vars

\* ------------------------------------------------------- the count link
\* The user edits filters and asks for the total; the count endpoint answers
\* with a count, with a body that holds none, or not at all.
InitCount == InitOf({"count"}) /\ call = NoCall /\ payload = NoPayload

NextCount ==
    \/ FetchTotalCount
    \/ \E i \in 1..Len(countReqs), ok \in BOOLEAN : CountResponse(i, ok)
    \/ \E i \in 1..Len(countReqs) : CountResponseNoCount(i)
    \/ \E i \in 1..Len(pageReqs), ok \in BOOLEAN : PageResponse(i, ok)
    \/ \E c \in AllCols, v \in FilterValues : FilterInput(c, v)
    \/ FilterTimeoutFire
    \/ \E fits \in BOOLEAN : CheckTimerFire(fits)

SpecCount == InitCount /\ [][NextCount]_vars

\* ------------------------------------------- the payload normalisation
\* Lines 139-147: row rowIndex of the result holds element rowIndex of every
\* array of columnData, as many rows as the first array has elements.
Transpose(columnData) ==
    [rowIndex \in 1..Len(columnData[1]) |->
        [colIndex \in 1..Len(columnData) |-> columnData[colIndex][rowIndex]]]

\* Lines 136-150: newRows of a payload.
Normalize(p) ==
    IF Len(p.items) > 0 /\ p.arrays THEN Transpose(p.items) ELSE p.items

\* The logical tables of n rows and m columns.
Cells == {"x", "y"}
Tables(n, m) == [1..n -> [1..m -> Cells]]

\* The shapes a table is sent in: one array per column, one array per row,
\* one object per row.
Shapes == {"columns", "rows", "objects"}

\* The columns of table t, given that it has m of them.
ColumnMajor(t, m) == [c \in 1..m |-> [r \in 1..Len(t) |-> t[r][c]]]

\* json.data for table t of m columns in a shape.
Encode(t, m, shape) ==
    [arrays |-> shape # "objects",
     items  |-> IF shape = "columns" THEN ColumnMajor(t, m) ELSE t,
     table  |-> t,
     shape  |-> shape,
     done   |-> FALSE]

\* Every table of up to MaxTableRows rows and MaxTableCols columns in
\* every shape.
Payloads ==
    UNION {{Encode(t, m, shape) : t \in Tables(n, m), shape \in Shapes} :
             n \in 0..MaxTableRows, m \in 1..MaxTableCols}

InitPayload ==
    /\ InitWith({"payload"}, 1..MaxTableRows, {0})
    /\ call = NoCall
    /\ payload \in Payloads

\* Lines 136-158 on the payload drawn: the rows, hasMore and the cut to the
\* page size.
NormalizeCall ==
    /\ ~payload.done
    /\ LET rows == Normalize(payload)
           more == HasMoreOf(Len(rows), pageSize)
       IN  normalized' = [rows |-> Truncate(rows, more, pageSize), hasMore |-> more]
    /\ payload' = [payload EXCEPT !.done = TRUE]
    /\ UNCHANGED <<engine, timers, dom, net, session, layout, call, emitted, currentPage>>

NextPayload == NormalizeCall

SpecPayload == InitPayload /\ [][NextPayload]_vars

\* ------------------------------------------------- applyFilter on its own
\* The symbols of the three operator tables and one that is in none.
Symbols == DOMAIN CharsFilterTypes \cup DOMAIN NumberFilterTypes \cup {"?"}

\* Raw values: up to MaxValueLen tokens.
ValueTokens == {"a", "b", ",", " ", "$$"}
CodecValues == UNION {[1..n -> ValueTokens] : n \in 0..MaxValueLen}

\* column.format: a known kind, a missing one or an unknown one.
CodecFormats == Formats \cup {"", "OTHER"}

InitCodec ==
    /\ InitWith({"codec"}, PageSizes, {0})
    /\ call \in [format : CodecFormats, colId : AllCols, type : Symbols,
                  value : CodecValues, done : {FALSE}]
    /\ payload = NoPayload

\* applyFilter(params, column, filter) is called with the arguments drawn.
ApplyFilterCall ==
    /\ ~call.done
    /\ emitted' = applyFilter(call.format, call.colId,
                              [type |-> call.type, value |-> call.value])
    /\ call' = [call EXCEPT !.done = TRUE]
    /\ UNCHANGED <<engine, timers, dom, net, session, layout, payload, normalized, currentPage>>

NextCodec == ApplyFilterCall

SpecCodec == InitCodec /\ [][NextCodec]_vars

SpecAll == InitAll /\ [][Next]_vars

\* ------------------------------------------------- one edit-form submission
\* The answer to the POST of saveRecord: rejected = the fetch rejected;
\* ok = response.ok; json = the body parses as JSON; error = the JSON body
\* has an error member, or the text body contains "error"; id = the JSON
\* body carries the id of the created record.
SaveResponses ==
    {[rejected |-> TRUE, ok |-> FALSE, json |-> FALSE, error |-> FALSE, id |-> FALSE]}
    \cup {r \in [rejected : {FALSE}, ok : BOOLEAN, json : BOOLEAN,
                 error : BOOLEAN, id : BOOLEAN] :
            r.id => (r.json /\ r.ok /\ ~r.error)}

\* The try block of saveRecord throws on this answer.
SaveThrows(resp) ==
    \/ resp.rejected
    \/ IF resp.json THEN resp.error ELSE (resp.error \/ ~resp.ok)

\* The server has stored what the form sent.
Stored(resp) == ~resp.rejected /\ resp.ok /\ ~resp.error

\* saveRecord calls: isCreate, columnId = the form was opened from a column
\* header, and the answer the POST will get.
SaveCalls ==
    {c \in [isCreate : BOOLEAN, columnId : BOOLEAN, resp : SaveResponses, done : {FALSE}] :
        c.columnId => c.isCreate}

InitSave == InitOf({"save"}) /\ call \in SaveCalls /\ payload = NoPayload

\* saveRecord from the answer of its POST on: the catch block shows a toast
\* and nothing else; otherwise the new record is fetched or the table is
\* reset and reloaded.
SaveRecordCall ==
    /\ session = "save"
    /\ scrollListener
    /\ ~call.done
    /\ call' = [call EXCEPT !.done = TRUE]
    /\ LET adds == Stored(call.resp) /\ call.isCreate
       IN  /\ backendRows' = (IF adds THEN backendRows + 1 ELSE backendRows)
           /\ created' = (IF adds THEN created + 1 ELSE created)
    /\ IF SaveThrows(call.resp)
       THEN UNCHANGED <<engine, pageReqs, countReqs, refreshReqs>>
       ELSE IF call.isCreate /\ call.columnId /\ call.resp.id
            THEN /\ refreshReqs' = Append(refreshReqs, backendRows + 1)
                 /\ UNCHANGED <<engine, pageReqs, countReqs>>
            ELSE /\ ResetAndLoad(Cur)
                 /\ UNCHANGED refreshReqs
    /\ UNCHANGED <<timers, dom, session, emitted, payload, normalized, currentPage, layout>>

NextSave ==
    \/ SaveRecordCall
    \/ \E i \in 1..Len(pageReqs), ok \in BOOLEAN : PageResponse(i, ok)
    \/ ScrollEvent
    \/ \E fits \in BOOLEAN : CheckTimerFire(fits)
    \/ \E i \in 1..Len(refreshReqs), o \in {"row", "empty", "fail"} : RefreshResponse(i, o)

SpecSave == InitSave /\ [][NextSave]_vars

\* ------------------------------------------------------ reload() called twice
\* The fields a reload is to bring to the same values whenever it is made.
ReloadFields == <<data, loadedRecords, hasMore, totalRows, columnOrder, visibleColumns>>

\* A reset fetch for the filters and the page size as they are now is
\* outstanding.
ResetOutstanding ==
    \E i \in 1..Len(pageReqs) :
        /\ ~pageReqs[i].append
        /\ pageReqs[i].offset = 0
        /\ pageReqs[i].count = RequestSize(pageSize)
        /\ pageReqs[i].params = FilterParams(filters, columns)

\* reload() calls made so far in the run; dropped = the loadData call of
\* the first returned early; covered = the fetch that made it return was
\* itself a reset fetch for the same filters and page size; once = the
\* fields as the first call left them, kept when the second call is made
\* with no fetch outstanding.
NoReload == [resets |-> 0, dropped |-> FALSE, covered |-> FALSE, settled |-> FALSE, once |-> <<>>]

InitTwice == InitOf({"twice"}) /\ call = NoReload /\ payload = NoPayload

\* reload(): the first or the second of the two calls of a run.
ReloadCall ==
    /\ session = "twice"
    /\ call.resets < 2
    /\ call' = [resets  |-> call.resets + 1,
                dropped |-> IF call.resets = 0 THEN isLoading ELSE call.dropped,
                covered |-> IF call.resets = 0 THEN ResetOutstanding ELSE call.covered,
                settled |-> call.resets = 1 /\ ~isLoading,
                once    |-> IF call.resets = 1 /\ ~isLoading THEN ReloadFields ELSE <<>>]
    /\ ResetAndLoad(Cur)
    /\ UNCHANGED <<timers, dom, refreshReqs, backendRows, created, session,
                   emitted, payload, normalized, currentPage, layout>>

\* Before the first call the user scrolls and picks filter operators; from
\* the first call on the backend answers, always with success, and no
\* append is started.
NextTwice ==
    \/ ReloadCall
    \/ \E i \in 1..Len(pageReqs) : PageResponse(i, TRUE)
    \/ \E fits \in BOOLEAN :
         /\ call.resets = 0 \/ ~FitCheckLoads(view, isLoading, hasMore, fits)
         /\ CheckTimerFire(fits)
    \/ call.resets = 0 /\ ScrollEvent
    \/ call.resets = 0 /\ \E c \in AllCols, t \in OpChoices : FilterTypeSelect(c, t)

SpecTwice == InitTwice /\ [][NextTwice]_vars

\* ------------------------------------------------- rows against the backend
\* A session with the filter row against an unchanging backend that answers
\* every page fetch: the user scrolls, edits filters, clears them and
\* reloads, in any order with the responses and the timers.
InitRows == InitOf({"filters"}) /\ call = NoCall /\ payload = NoPayload

NextRows ==
    \/ \E i \in 1..Len(pageReqs) : PageResponse(i, TRUE)
    \/ ScrollEvent
    \/ \E fits \in BOOLEAN : CheckTimerFire(fits)
    \/ \E c \in AllCols, v \in FilterValues : FilterInput(c, v)
    \/ FilterTimeoutFire
    \/ ClearAllFilters
    \/ Reload

SpecRows == InitRows /\ [][NextRows]_vars

\* ------------------------------------------------ the page size under load
\* The user changes the page size in the settings dialog and scrolls while
\* the backend, which always answers, is at work.
RacePageSizes == 1..MaxRacePageSize

InitSizes ==
    InitWith({"records"}, RacePageSizes, 0..MaxRaceRows) /\ call = NoCall /\ payload = NoPayload

NextSizes ==
    \/ \E i \in 1..Len(pageReqs) : PageResponse(i, TRUE)
    \/ \E n \in RacePageSizes : PageSizeChange(n)
    \/ ScrollEvent
    \/ \E fits \in BOOLEAN : CheckTimerFire(fits)

SpecSizes == InitSizes /\ [][NextSizes]_vars

\* --------------------------------------------------- a reload() that is dropped
\* One reload() call, made at any moment of a session in which the user
\* scrolls and picks filter operators; after it the user does nothing more.
\* The backend answers every fetch and every timer set fires, so neither
\* the responses nor the fit-on-screen timers are postponed for ever.
TwiceResponse == \E i \in 1..Len(pageReqs) : PageResponse(i, TRUE)

TwiceCheck == \E fits \in BOOLEAN : CheckTimerFire(fits)

NextLost ==
    \/ call.resets = 0 /\ ReloadCall
    \/ TwiceResponse
    \/ TwiceCheck
    \/ call.resets = 0 /\ ScrollEvent
    \/ call.resets = 0 /\ \E c \in AllCols, t \in OpChoices : FilterTypeSelect(c, t)

SpecLost == InitTwice /\ [][NextLost]_vars /\ WF_vars(TwiceResponse) /\ WF_vars(TwiceCheck)

\* ------------------------------------------------------ dragging the headers
\* Array.prototype.splice(i, 0, x) at the 1-based index i.
InsertAt(s, i, x) == SubSeq(s, 1, i - 1) \o <<x>> \o SubSeq(s, i, Len(s))

reorderColumnsBeforeTarget(order, draggedId, targetId) ==
    LET draggedIndex == IndexOf(order, <<draggedId>>)
        rest         == RemoveAt(order, draggedIndex)
        targetIndex  == IndexOf(rest, <<targetId>>)
    IN  IF draggedIndex = 0 \/ IndexOf(order, <<targetId>>) = 0 \/ targetIndex = 0
        THEN order
        ELSE InsertAt(rest, targetIndex, draggedId)

\* columnOrder after reorderColumns(draggedId, targetId): both indexes are
\* taken first, then the dragged id is cut out and put in at the index the
\* target had.
reorderColumns(order, draggedId, targetId) ==
    LET draggedIndex == IndexOf(order, <<draggedId>>)
        targetIndex  == IndexOf(order, <<targetId>>)
    IN  IF draggedIndex = 0 \/ targetIndex = 0
        THEN order
        ELSE InsertAt(RemoveAt(order, draggedIndex), targetIndex, draggedId)

\* The ids that headers, and direct calls, can name: the report's columns
\* and one id that no column has.
DragIds == ColumnIds(Pool) \cup {"c4"}

InitReorder ==
    /\ InitEngine({"reorder"}, {1}, {1})
    /\ \E state \in Cookies : loadColumnState(state)
    /\ call = NoCall /\ payload = NoPayload

\* reorderColumns(draggedId, targetId), from the drop handler of a header
\* or called directly once the table is shown; it returns early when either
\* id is not in columnOrder, and saves and renders otherwise.
ReorderColumns(draggedId, targetId) ==
    /\ session = "reorder"
    /\ view = "table"
    /\ columnOrder' = reorderColumns(columnOrder, draggedId, targetId)
    /\ UNCHANGED <<engine, timers, dom, net, session, codec, visibleColumns,
                   columnWidths, marks>>

NextReorder ==
    \/ \E i \in 1..Len(pageReqs) : PageResponse(i, TRUE)
    \/ \E d \in DragIds, t \in DragIds : ReorderColumns(d, t)
    \/ Reload
    \/ \E fits \in BOOLEAN : CheckTimerFire(fits)

SpecReorder == InitReorder /\ [][NextReorder]_vars

\* ------------------------------------------------ the paged table of info.js
\* The filter loop of the paged loadData: only filters that hold a value.
LegacyFilterParams(flt, cols) ==
    UNION {applyFilter(ColFormat[c], c, flt[c]) :
             c \in {d \in DOMAIN flt : flt[d].value # <<>> /\ d \in ColumnIds(cols)}}

\* LIMIT=<currentPage * pageSize>,<pageSize> with the filter parameters.
LegacyRequest(page, ps, flt, cols) ==
    [offset |-> page * ps, count |-> ps, params |-> LegacyFilterParams(flt, cols)]

\* The constructor of the paged table: page 0, no rows, and the fetch of
\* init() outstanding.  The fields of the scrolling engine do not exist in
\* it and keep one value.  call holds whether a fetch of the run has failed.
InitLegacy ==
    /\ session = "legacy"
    /\ data = <<>>
    /\ currentPage = 0
    /\ totalRows = 0
    /\ filters = EmptyFilters
    /\ columns = <<>>
    /\ pageSize \in PageSizes
    /\ backendRows \in 0..MaxLegacyRows
    /\ pageReqs = <<LegacyRequest(0, pageSize, EmptyFilters, <<>>)>>
    /\ view = "none"
    /\ filterTimeout = 0
    /\ loadColumnState(NoCookie)
    /\ idColumns = NoMarks.idColumns
    /\ styleColumns = NoMarks.styleColumns
    /\ editableColumns = NoMarks.editableColumns
    /\ loadedRecords = 0 /\ hasMore = TRUE /\ isLoading = FALSE
    /\ checkTimers = 0 /\ scrollListener = FALSE
    /\ countReqs = <<>> /\ refreshReqs = <<>> /\ created = 0
    /\ call = [failed |-> FALSE] /\ emitted = {}
    /\ payload = NoPayload /\ normalized = [rows |-> <<>>, hasMore |-> FALSE]

\* What no handler of the paged table writes.
legacyIdle == <<loadedRecords, hasMore, isLoading, checkTimers, scrollListener,
                countReqs, refreshReqs, created, emitted, payload, normalized,
                columnWidths, editableColumns, pageSize, backendRows, session>>

\* The paged loadData up to its await: it has no guard and always fetches.
LegacyLoadData(page, flt) ==
    /\ Len(pageReqs) < MaxLegacyReqs
    /\ pageReqs' = Append(pageReqs, LegacyRequest(page, pageSize, flt, columns))

\* The response of fetch i arrives, in whatever order; ok = the fetch and
\* the decoding succeeded.  The rows of the response replace data.
LegacyResponse(i, ok) ==
    /\ session = "legacy"
    /\ i \in 1..Len(pageReqs)
    /\ pageReqs' = RemoveAt(pageReqs, i)
    /\ call' = [failed |-> call.failed \/ ~ok]
    /\ IF ok
       THEN LET r     == pageReqs[i]
                found == Result(r.params, backendRows)
                rows  == Slice(found, r.offset, r.count)
                pcv   == processColumnVisibility(ColumnList)
            IN  /\ columns' = ColumnList
                /\ data' = rows
                /\ totalRows' = (IF Len(found) # 0 THEN Len(found) ELSE Len(rows))
                /\ idColumns' = pcv.idColumns
                /\ styleColumns' = pcv.styleColumns
                /\ columnOrder' = DefaultOrder(columnOrder, Ids(ColumnList))
                /\ visibleColumns' =
                     (IF visibleColumns = <<>>
                      THEN SelectSeq(Ids(ColumnList), LAMBDA c : c \notin pcv.idColumns)
                      ELSE visibleColumns)
                /\ view' = "table"
       ELSE /\ view' = "error"
            /\ UNCHANGED <<columns, data, totalRows, idColumns, styleColumns,
                           columnOrder, visibleColumns>>
    /\ UNCHANGED <<currentPage, filters, filterTimeout, legacyIdle>>

\* Math.ceil(totalRows / pageSize) of renderPagination.
totalPages == (totalRows + pageSize - 1) \div pageSize

\* The 'next' button of the pagination bar, enabled while a later page
\* exists, calls nextPage().
LegacyNextPage ==
    /\ session = "legacy"
    /\ view = "table"
    /\ currentPage < totalPages - 1
    /\ currentPage < MaxLegacyPage
    /\ currentPage' = currentPage + 1
    /\ LegacyLoadData(currentPage + 1, filters)
    /\ UNCHANGED <<data, totalRows, filters, columns, view, filterTimeout,
                   layout, call, legacyIdle>>

\* The 'previous' button calls prevPage(), which does nothing on page 0.
LegacyPrevPage ==
    /\ session = "legacy"
    /\ view = "table"
    /\ currentPage > 0
    /\ currentPage' = currentPage - 1
    /\ LegacyLoadData(currentPage - 1, filters)
    /\ UNCHANGED <<data, totalRows, filters, columns, view, filterTimeout,
                   layout, call, legacyIdle>>

\* The 'input' event of a filter input of the paged table.
LegacyFilterInput(colId, value) ==
    /\ session = "legacy"
    /\ view = "table"
    /\ colId \in ColumnIds(columns)
    /\ value # FilterOf(filters, colId).value
    /\ ClearTimeout(filterTimeout) < MaxFilterTimers
    /\ filters' = SetFilter(filters, colId, [FilterOf(filters, colId) EXCEPT !.value = value])
    /\ filterTimeout' = ClearTimeout(filterTimeout) + 1
    /\ UNCHANGED <<data, totalRows, columns, view, pageReqs, currentPage, layout, call,
                   legacyIdle>>

\* Its debounce timer fires: page 0 is fetched.
LegacyFilterTimeoutFire ==
    /\ session = "legacy"
    /\ filterTimeout > 0
    /\ filterTimeout' = filterTimeout - 1
    /\ currentPage' = 0
    /\ LegacyLoadData(0, filters)
    /\ UNCHANGED <<data, totalRows, filters, columns, view, layout, call, legacyIdle>>

NextLegacy ==
    \/ \E i \in 1..Len(pageReqs), ok \in BOOLEAN : LegacyResponse(i, ok)
    \/ LegacyNextPage
    \/ LegacyPrevPage
    \/ \E c \in AllCols, v \in FilterValues : LegacyFilterInput(c, v)
    \/ LegacyFilterTimeoutFire

SpecLegacy == InitLegacy /\ [][NextLegacy]_vars

\* ==================================================================== claims
\* The engine fields a dropped loadData call must leave alone.
loadFields == <<data, loadedRecords, hasMore, totalRows, columns, filters, pageReqs>>

\* C1: at most one loadData page fetch is outstanding in every reachable
\* state, and a direct loadData call (reset or append) made while isLoading
\* is true issues no request and leaves rows, loadedRecords, hasMore,
\* totalRows, columns and filters as they were.
C1_SingleFlight ==
    /\ [](Len(pageReqs) <= 1)
    /\ [][(isLoading /\ \E append \in BOOLEAN : ApiLoadData(append))
             => UNCHANGED loadFields]_vars

\* C1 witness: reload()'s loadData(false) was dropped while an append at a
\* positive offset was outstanding: the fields are reset, the only request
\* is still the append.
C1_Witness ==
    /\ isLoading
    /\ Len(pageReqs) = 1
    /\ pageReqs[1].append
    /\ pageReqs[1].offset > 0
    /\ loadedRecords = 0

\* The rows in front of which a response is merged.
Kept(r) == IF r.append THEN data ELSE <<>>

\* C2: for every successful page fetch, a response of more than pageSize
\* rows sets hasMore and merges exactly its first pageSize rows; a response
\* of pageSize rows or fewer clears hasMore and merges every row.
C2_Lookahead ==
    [][\A i \in 1..Len(pageReqs) :
         PageResponse(i, TRUE) =>
           LET r == pageReqs[i]
               rows == Returned(r)
           IN  /\ Len(rows) > pageSize =>
                     hasMore' /\ data' = Kept(r) \o SubSeq(rows, 1, pageSize)
               /\ Len(rows) <= pageSize =>
                     ~hasMore' /\ data' = Kept(r) \o rows]_vars

\* C2 witness: a second page came with its lookahead row: pageSize rows of
\* it were merged behind the first page and hasMore is set.
C2_Witness ==
    /\ ~isLoading
    /\ hasMore
    /\ pageSize = 1
    /\ data = <<1, 2>>
    /\ backendRows = 3

\* C3: every page fetch requests LIMIT=<offset>,<pageSize+1> with offset 0
\* for a reset load and loadedRecords for an append, and every successful
\* load leaves loadedRecords at the rows merged so far in the cycle: 0 for a
\* reset load, the previous loadedRecords for an append, plus the rows merged.
C3_OffsetBookkeeping ==
    /\ [][Len(pageReqs') > Len(pageReqs) =>
            LET r == pageReqs'[Len(pageReqs')]
            IN  /\ r.count = pageSize' + 1
                /\ r.offset = (IF r.append THEN loadedRecords' ELSE 0)]_vars
    /\ [][\A i \in 1..Len(pageReqs) :
            PageResponse(i, TRUE) =>
              loadedRecords' = (IF pageReqs[i].append THEN loadedRecords ELSE 0)
                                 + Min(Len(Returned(pageReqs[i])), pageSize)]_vars

\* C3 witness: the third page of full pages is requested at offset 2*pageSize.
C3_Witness ==
    /\ Len(pageReqs) = 1
    /\ pageReqs[1].append
    /\ pageReqs[1].offset = 2 * pageSize
    /\ pageReqs[1].count = pageSize + 1
    /\ data = <<1, 2>>

\* C4: loadedRecords is the number of rows held in data, in every reachable
\* state.
C4_LoadedIsRowCount == loadedRecords = Len(data)

\* C4 witness: a created record was put in front of two loaded pages.
C4_Witness ==
    /\ created = 1
    /\ Len(data) = 3
    /\ data[1] = backendRows
    /\ loadedRecords = 3

\* A step of a reset trigger.
ResetTrigger ==
    \/ FilterTimeoutFire
    \/ \E c \in AllCols, t \in OpChoices : TypeSelectReloads(c, t) /\ FilterTypeSelect(c, t)
    \/ ClearAllFilters
    \/ Reload
    \/ \E n \in PageSizes : PageSizeChange(n)
    \/ ResetSettings
    \/ \E isCreate \in BOOLEAN : SaveReload(isCreate)
    \/ \E i \in 1..Len(refreshReqs), o \in {"empty", "fail"} : RefreshResponse(i, o)

\* C5: every reset trigger empties data, sets loadedRecords to 0, hasMore to
\* true and totalRows to unknown before its loadData(false): the step ends
\* in those values, and the call, seeing them, fetches from offset 0 unless
\* a fetch is outstanding.
C5_ResetClears ==
    [][ResetTrigger =>
         /\ data' = <<>>
         /\ loadedRecords' = 0
         /\ hasMore'
         /\ totalRows' = Null
         /\ ~isLoading =>
               /\ isLoading'
               /\ Len(pageReqs') = 1
               /\ ~pageReqs'[1].append
               /\ pageReqs'[1].offset = 0]_vars

\* C5 witness: a reset trigger acted on a fully loaded table with a known
\* total under a filter: everything is cleared and the reset load is out.
C5_Witness ==
    /\ view = "table"
    /\ data = <<>>
    /\ loadedRecords = 0
    /\ hasMore
    /\ totalRows = Null
    /\ Len(pageReqs) = 1
    /\ ~pageReqs[1].append
    /\ pageReqs[1].params # {}

\* C6: while hasMore is false no append fetch is issued: a loadData(true)
\* call made then, by the scroll listener, the fit-on-screen check or
\* directly, sends no request.
C6_NoAppendWithoutMore ==
    [][(/\ Len(pageReqs') > Len(pageReqs)
        /\ pageReqs'[Len(pageReqs')].append) => hasMore]_vars

\* C7: with no fetch in flight a loadData(false) call is accepted whatever
\* hasMore and loadedRecords are: it fetches from offset 0.
C7_ResetLoadAccepted ==
    ~isLoading => ENABLED (ApiLoadData(FALSE) /\ isLoading')

\* C8: a successful load that ends with hasMore false while totalRows was
\* unknown sets totalRows to loadedRecords; any other successful load leaves
\* totalRows as it was; no load sends a further request for it.
C8_TotalInference ==
    [][\A i \in 1..Len(pageReqs) :
         PageResponse(i, TRUE) =>
           /\ totalRows' = (IF ~hasMore' /\ totalRows = Null
                            THEN loadedRecords' ELSE totalRows)
           /\ pageReqs' = RemoveAt(pageReqs, i)
           /\ countReqs' = countReqs
           /\ refreshReqs' = refreshReqs]_vars

\* C8 witness: page size 1, two rows came (one shown, total unknown), then
\* the append brought the last one: two rows loaded, no more, total two.
C8_Witness ==
    /\ pageSize = 1
    /\ data = <<1, 2>>
    /\ loadedRecords = 2
    /\ backendRows = 2
    /\ ~hasMore
    /\ totalRows = 2
    /\ countReqs = <<>>
    /\ ~isLoading

\* C9: after a filter-change reset a count response or a page response that
\* was requested under the previous filters does not make totalRows known.
C9_NoStaleTotal ==
    [][/\ \A i \in 1..Len(countReqs) :
            (countReqs[i].stale /\ CountResponse(i, TRUE)) => totalRows' = Null
       /\ \A i \in 1..Len(pageReqs) :
            (pageReqs[i].stale /\ totalRows = Null /\ PageResponse(i, TRUE))
               => totalRows' = Null]_vars

\* C10: a failed reset load shows the error placeholder and leaves the
\* engine as freshly reset: no rows, loadedRecords 0, hasMore true, totalRows
\* unknown, isLoading false.
C10_FailedResetIsFresh ==
    [][\A i \in 1..Len(pageReqs) :
         (~pageReqs[i].append /\ PageResponse(i, FALSE)) =>
           /\ view' = "error"
           /\ data' = <<>>
           /\ loadedRecords' = 0
           /\ hasMore'
           /\ totalRows' = Null
           /\ ~isLoading']_vars

\* A step in which the load of request i fails: the fetch rejects or the body
\* is not JSON, or the handling of the decoded response throws.
LoadFails(i) ==
    PageResponse(i, FALSE) \/ \E late \in BOOLEAN : PageResponseThrows(i, late)

\* C11: when an append load fails nothing is merged: data, loadedRecords,
\* hasMore, totalRows, columns, columnOrder and visibleColumns are as before
\* the call, no error placeholder appears, and isLoading is false again.
C11_AppendFailureMergesNothing ==
    [][\A i \in 1..Len(pageReqs) :
         (pageReqs[i].append /\ LoadFails(i)) =>
           /\ UNCHANGED <<data, loadedRecords, hasMore, totalRows, columns,
                          columnOrder, visibleColumns, view>>
           /\ ~isLoading']_vars

\* C12: after an append fetch fails no append fetch follows without a user
\* action: the fit-on-screen check that the failure schedules, finding the
\* table short of the viewport, starts no fetch.
C12_NoRetryAfterAppendFailure ==
    [][\A i \in 1..Len(pageReqs) :
         (pageReqs[i].append /\ PageResponse(i, FALSE)) =>
           /\ checkTimers' > 0
           /\ ~FitCheckLoads(view', isLoading', hasMore', TRUE)]_vars

\* The step sends one more page request, a reset load at offset 0 carrying
\* the parameters of the filters flt.
IssuesResetLoad(flt) ==
    /\ Len(pageReqs') = Len(pageReqs) + 1
    /\ LET r == pageReqs'[Len(pageReqs')]
       IN  /\ ~r.append
           /\ r.offset = 0
           /\ r.params = FilterParams(flt, columns)

\* The four fields are as a reset leaves them.
IsReset ==
    data' = <<>> /\ loadedRecords' = 0 /\ hasMore' /\ totalRows' = Null

\* C13: a burst of filter-value edits, each arriving before the timer of
\* the previous one fires, triggers exactly one reset-and-reload, carrying
\* the value of the last edit: at most one debounce timer is ever pending,
\* an edit stores its value and fetches nothing, and the timer, when it
\* fires, resets and (no fetch being in flight) sends one request built
\* from the filters as the last edit left them.
C13_DebounceCollapse ==
    /\ [](filterTimeout <= 1)
    /\ [][\A c \in AllCols, v \in FilterValues :
            FilterInput(c, v) =>
              /\ filterTimeout' = 1
              /\ filters'[c].value = v
              /\ UNCHANGED <<data, loadedRecords, hasMore, totalRows, isLoading,
                             pageReqs>>]_vars
    /\ [][FilterTimeoutFire =>
            /\ filterTimeout' = 0
            /\ filters' = filters
            /\ IsReset
            /\ ~isLoading => IssuesResetLoad(filters)]_vars

\* C13 witness: the timer has fired after the last edit set "a" on a fully
\* loaded table: one reset load carrying FR_c1=a% is out, no timer is left.
C13_Witness ==
    /\ filterTimeout = 0
    /\ filters = [c \in {"c1"} |-> [type |-> "^", value |-> <<"a">>]]
    /\ data = <<>>
    /\ totalRows = Null
    /\ Len(pageReqs) = 1
    /\ pageReqs[1].params = {<<"FR_c1", <<"a", "%">> >>}
    /\ pageReqs[1].offset = 0

\* C14: choosing the operator '%' or '!%' for a column sets that column's
\* value to empty and resets and reloads in the same step, leaving the
\* debounce timer alone: the request carries FR_<column>=% or =!%.
C14_ValuelessOperator ==
    [][\A c \in AllCols, t \in {"%", "!%"} :
         FilterTypeSelect(c, t) =>
           /\ filters'[c] = [type |-> t, value |-> <<>>]
           /\ IsReset
           /\ filterTimeout' = filterTimeout
           /\ ~isLoading =>
                 /\ IssuesResetLoad(filters')
                 /\ <<"FR_" \o c, IF t = "%" THEN <<"%">> ELSE <<"!", "%">> >>
                       \in pageReqs'[Len(pageReqs')].params]_vars

\* C14 witness: '%' was chosen while the edit that typed a value was still
\* waiting for its timer: the value is gone and the reload is out already.
C14_Witness ==
    /\ filterTimeout = 1
    /\ filters = [c \in {"c1"} |-> [type |-> "%", value |-> <<>>]]
    /\ data = <<>>
    /\ Len(pageReqs) = 1
    /\ pageReqs[1].params = {<<"FR_c1", <<"%">> >>}

C16_OperatorChangeDebounced ==
    [][\A c \in AllCols, t \in OpChoices \ {"%", "!%"} :
         (FilterOf(filters, c).value # <<>> /\ FilterTypeSelect(c, t)) =>
           /\ pageReqs' = pageReqs
           /\ filterTimeout' = 1]_vars

\* C17: clearAllFilters empties the filter map and resets and reloads in
\* the same step, leaving the debounce timer alone: with no fetch in flight
\* the request has offset 0 and no FR_ or TO_ parameter.
C17_ClearAllFilters ==
    [][ClearAllFilters =>
         /\ filters' = EmptyFilters
         /\ IsReset
         /\ filterTimeout' = filterTimeout
         /\ ~isLoading =>
               /\ IssuesResetLoad(EmptyFilters)
               /\ pageReqs'[Len(pageReqs')].params = {}]_vars

\* C17 witness: the filters were cleared while an edit's timer was pending
\* (only clearAllFilters takes a column out of the map): the map is empty
\* and the unfiltered reload is out.
C17_Witness ==
    /\ filterTimeout = 1
    /\ filters = EmptyFilters
    /\ data = <<>>
    /\ Len(pageReqs) = 1
    /\ pageReqs[1].params = {}
    /\ pageReqs[1].offset = 0

\* C18: a page-size change stores the new page size, resets and reloads
\* (with no fetch in flight the request asks for the new size plus one),
\* and leaves columnOrder, visibleColumns, columnWidths and the filter map
\* as they were.
C18_PageSizeChange ==
    [][\A n \in PageSizes :
         PageSizeChange(n) =>
           /\ pageSize' = n
           /\ IsReset
           /\ ~isLoading =>
                 /\ IssuesResetLoad(filters)
                 /\ pageReqs'[Len(pageReqs')].count = n + 1
           /\ UNCHANGED <<columnOrder, visibleColumns, columnWidths, filters>>]_vars

\* C18 witness: the page size was changed on a table with a filter, a
\* dragged column width and the default column order: the reload for the
\* new size is out and the filter and the layout are still there.
C18_Witness ==
    /\ pageSize = 1
    /\ Len(pageReqs) = 1
    /\ pageReqs[1].count = 2
    /\ pageReqs[1].params = {<<"FR_c1", <<"a", "%">> >>}
    /\ data = <<>>
    /\ filterTimeout = 0
    /\ columnWidths = [c \in {"c1"} |-> 50]
    /\ columnOrder = <<"c1">>
    /\ visibleColumns = <<"c1">>

\* All rows of the backend are loaded, in order, and the engine is at rest.
FitDone ==
    /\ ~hasMore
    /\ ~isLoading
    /\ pageReqs = <<>>
    /\ loadedRecords = backendRows
    /\ data = Result({}, backendRows)

\* C19: with a viewport that is never filled, a finite unchanging backend
\* and every fetch succeeding, the fit-on-screen check starts an append
\* after every load while hasMore is true and none once it is false, and
\* the run comes to rest with hasMore false, no fetch outstanding and every
\* row of the backend loaded.
C19_FitTerminates ==
    /\ [][FitCheck => (Len(pageReqs') = Len(pageReqs) + 1 <=> hasMore)]_vars
    /\ <>[]FitDone

\* C19 witness: the table came to rest after at least three pages.
C19_Witness ==
    /\ FitDone
    /\ checkTimers = 0
    /\ backendRows >= 3 * pageSize
    /\ pageSize > 1

\* The part of an operator's format after the parameter name and the
\* operator sign that follows it.
TemplateRhs(format) == SubSeq(format, 4, Len(format))

\* text with the raw value put in the place of { X }.
Substituted(text, value) ==
    LET i == IndexOf(text, <<"{ X }">>)
    IN  IF i = 0 THEN text
        ELSE SubSeq(text, 1, i - 1) \o value \o SubSeq(text, i + 1, Len(text))

\* C20: for every column kind and every operator of that kind other than
\* the range and the two valueless ones, applyFilter emits exactly one
\* parameter, named FR_<columnId>, whose value is the right-hand side of
\* the operator's template with the raw value in it and does not hold the
\* parameter's name.
C20_OneParameterWithoutName ==
    (/\ call.done
     /\ call.format \in Formats
     /\ call.type \in DOMAIN filterTypes(call.format)
     /\ call.type \notin {"...", "%", "!%"})
    => /\ Cardinality(emitted) = 1
       /\ \A p \in emitted :
             /\ p[1] = "FR_" \o call.colId
             /\ p[2] = Substituted(TemplateRhs(filterTypes(call.format)[call.type]),
                                   call.value)
             /\ \A k \in 1..Len(p[2]) : p[2][k] # "FR_"

\* The tokens of v from position i up to the next comma.
RECURSIVE UpToComma(_, _)
UpToComma(v, i) ==
    IF i > Len(v) \/ v[i] = "," THEN <<>> ELSE <<v[i]>> \o UpToComma(v, i + 1)

\* t is p without the blanks at its two ends.
IsTrimmed(t, p) ==
    /\ t = <<>> \/ (Head(t) # " " /\ t[Len(t)] # " ")
    /\ \E i, j \in 0..Len(p) :
         /\ i + Len(t) + j = Len(p)
         /\ SubSeq(p, i + 1, i + Len(t)) = t
         /\ \A k \in (1..i) \cup ((Len(p) - j + 1)..Len(p)) : p[k] = " "

\* C21: for the range operator on a column kind that has it, a raw value
\* with a comma emits FR_<columnId> with the trimmed text before the first
\* comma and TO_<columnId> with the trimmed text between the first comma and
\* the next one (or the end); a raw value without a comma emits nothing,
\* and the call returns normally either way.
C21_RangeOperator ==
    (/\ call.done
     /\ call.type = "..."
     /\ "..." \in DOMAIN filterTypes(call.format))
    => LET v     == call.value
           comma == IndexOf(v, <<",">>)
       IN  IF comma = 0
           THEN emitted = {}
           ELSE \E lo, hi \in CodecValues :
                  /\ IsTrimmed(lo, UpToComma(v, 1))
                  /\ IsTrimmed(hi, UpToComma(v, comma + 1))
                  /\ emitted = {<<"FR_" \o call.colId, lo>>, <<"TO_" \o call.colId, hi>>}

\* C21 witness: a range whose lower bound is followed by a blank was
\* encoded into two parameters.
C21_Witness ==
    /\ call.done
    /\ call.type = "..."
    /\ call.format = "NUMBER"
    /\ call.value = <<"a", " ", ",", "b">>
    /\ emitted = {<<"FR_c1", <<"a">>>>, <<"TO_c1", <<"b">>>>}

\* The value the two valueless operators send.
Sentinel(type) == IF type = "%" THEN <<"%">> ELSE <<"!", "%">>

\* The parameters of the request a step has just added to reqs.
Added(reqs) == reqs[Len(reqs)].params

\* The parameters name column c once, with the sentinel of its operator.
CarriesSentinel(params, c, type) ==
    /\ <<"FR_" \o c, Sentinel(type)>> \in params
    /\ \A p \in params : p[1] \in {"FR_" \o c, "TO_" \o c} => p = <<"FR_" \o c, Sentinel(type)>>

\* C22: every page request and every count request issued while a column's
\* operator is '%' or '!%' carries FR_<columnId>=% or FR_<columnId>=!% and
\* nothing else for that column, whatever raw value is stored, an empty one
\* included.
C22_ValuelessSentinel ==
    [][\A c \in DOMAIN filters' :
         (filters'[c].type \in {"%", "!%"} /\ c \in ColumnIds(columns)) =>
           /\ Len(pageReqs') > Len(pageReqs)
                => CarriesSentinel(Added(pageReqs'), c, filters'[c].type)
           /\ Len(countReqs') > Len(countReqs)
                => CarriesSentinel(Added(countReqs'), c, filters'[c].type)]_vars

\* C22 witness: a page request and a count request with the sentinel are
\* outstanding, one issued under an empty raw value, while the stored value
\* is not empty.
C22_Witness ==
    /\ "c1" \in DOMAIN filters
    /\ filters["c1"].type = "!%"
    /\ filters["c1"].value # <<>>
    /\ \E i \in 1..Len(pageReqs) : pageReqs[i].params = {<<"FR_c1", <<"!", "%">>>>}
    /\ \E i \in 1..Len(countReqs) : countReqs[i].params = {<<"FR_c1", <<"!", "%">>>>}

\* The column kinds of numbers and of dates.
NumericFormats == {"NUMBER", "SIGNED"}
TemporalFormats == {"DATE", "DATETIME"}

\* The applyFilter call made got an operator that the table of the column's
\* kind does not hold.
UnsupportedCall == call.done /\ call.type \notin DOMAIN filterTypes(call.format)

Named(n) == {columns[j].id : j \in {k \in DOMAIN columns : columns[k].name = n}}

\* The ids of the loaded columns whose name is n but for the case.
NamedAnyCase(n) ==
    {columns[j].id : j \in {k \in DOMAIN columns : toLowerCase(columns[k].name) = toLowerCase(n)}}

\* Column i of the loaded list is named B+'ID', B being the result.
IdBase(i) == SubSeq(columns[i].name, 1, Len(columns[i].name) - 1)
IsIdName(i) == columns[i].name # <<>> /\ columns[i].name[Len(columns[i].name)] = "ID"

\* C24: after processColumnVisibility a column named B+'ID' is hidden if
\* and only if a column named exactly B is in the same list, and then a
\* column named B is editable with an identifier column of B as its
\* record-id source.
C24_IdentifierRule ==
    view = "table" =>
      \A i \in DOMAIN columns :
        IsIdName(i) =>
          /\ columns[i].id \in idColumns <=> Named(IdBase(i)) # {}
          /\ Named(IdBase(i)) # {} =>
                \E b \in Named(IdBase(i)) \cap DOMAIN editableColumns :
                  editableColumns[b] \in Named(columns[i].name)

\* Column i of the loaded list ends in one of the two style suffixes, in
\* any case; StyleBase is the name without the suffix.
IsStyleName(i) ==
    /\ columns[i].name # <<>>
    /\ columns[i].name[Len(columns[i].name)] \in {"Style", "STYLE", "style", "Stil", "stil"}
StyleBase(i) == SubSeq(columns[i].name, 1, Len(columns[i].name) - 1)

\* Column i is hidden and is the style source of a column named as its base.
HiddenAsStyle(i) ==
    /\ columns[i].id \in idColumns
    /\ \E b \in NamedAnyCase(StyleBase(i)) \cap DOMAIN styleColumns :
         \E j \in DOMAIN columns :
           /\ styleColumns[b] = columns[j].id
           /\ IsStyleName(j)
           /\ toLowerCase(StyleBase(j)) = toLowerCase(StyleBase(i))

\* The rule for the columns with a style suffix and for those with no suffix.
StyleRuleHolds ==
    \A i \in DOMAIN columns :
      /\ IsStyleName(i) => (HiddenAsStyle(i) <=> NamedAnyCase(StyleBase(i)) # {})
      /\ IsStyleName(i) => (columns[i].id \in idColumns => HiddenAsStyle(i))
      /\ (~IsStyleName(i) /\ ~IsIdName(i)) => columns[i].id \notin idColumns

Range(q) == {q[k] : k \in DOMAIN q}

\* A step in which a page fetch succeeds.
SuccessfulLoad == \E i \in 1..Len(pageReqs) : PageResponse(i, TRUE)

\* C26: after every successful load visibleColumns holds only ids of the
\* column list that load brought.
C26_VisibleSubsetOfColumns ==
    [][SuccessfulLoad => Range(visibleColumns') \subseteq ColumnIds(columns')]_vars

\* C27: a successful fetch sets visibleColumns and columnOrder only when
\* they are empty; a non-empty visibleColumns and a non-empty columnOrder
\* are after the fetch what they were before it.
C27_FetchKeepsCustomization ==
    [][SuccessfulLoad =>
         /\ visibleColumns # <<>> => visibleColumns' = visibleColumns
         /\ columnOrder # <<>> => columnOrder' = columnOrder]_vars

\* C28: after every successful load columnOrder holds every id of the
\* column list that load brought exactly once, and nothing else.
C28_OrderIsPermutation ==
    [][SuccessfulLoad =>
         /\ Range(columnOrder') = ColumnIds(columns')
         /\ Len(columnOrder') = Cardinality(ColumnIds(columns'))]_vars

\* C29: a table sent with one array per column and the same table sent with
\* one array per row both give the rows of the table, cut to the page size,
\* and the same hasMore.
C29_BothShapes ==
    (payload.done /\ payload.shape \in {"columns", "rows"}) =>
      LET more == Len(payload.table) > pageSize
      IN  /\ normalized.hasMore = more
          /\ normalized.rows =
               (IF more THEN SubSeq(payload.table, 1, pageSize) ELSE payload.table)

\* A count response that is a failure: no answer, an undecodable body, or
\* a body without a numeric count.
CountFails(i) == CountResponse(i, FALSE) \/ CountResponseNoCount(i)

\* C30: fetchTotalCount sends a count request, which has no LIMIT, with the
\* filter parameters a page fetch issued now would carry; a successful
\* response sets totalRows to the count of the rows those parameters
\* select; a failed one leaves totalRows and the view as they were.
C30_CountRequest ==
    [][/\ FetchTotalCount =>
            /\ Added(countReqs') = FilterParams(filters, columns)
            /\ DOMAIN countReqs'[Len(countReqs')] \cap {"offset", "count"} = {}
       /\ \A i \in 1..Len(countReqs) :
            /\ CountResponse(i, TRUE) =>
                 totalRows' = Len(Result(countReqs[i].params, backendRows))
            /\ CountFails(i) => UNCHANGED <<totalRows, view>>]_vars

\* The fetches of the engine that are outstanding: page fetches, count
\* requests and new-record refresh fetches.
Outstanding == Len(pageReqs) + Len(countReqs) + Len(refreshReqs)

\* C31: at most one fetch of the engine, of whatever kind, is outstanding
\* at any time: no count request and no new-record refresh fetch beside a
\* page fetch, and no page fetch beside one of those.
C31_OneFetchOfAnyKind == Outstanding <= 1

\* A submission that failed: the request was rejected or answered with an
\* HTTP error status, or the answer carries an error.
FailedSubmission(resp) == resp.rejected \/ ~resp.ok \/ resp.error

\* C32: a failed edit-form submission leaves data, loadedRecords, hasMore,
\* totalRows and filters as they were and issues no fetch; saveRecord resets
\* and reloads, or fetches the new record, only after a successful save.
C32_FailedSaveLeavesEngine ==
    [][(SaveRecordCall /\ FailedSubmission(call.resp)) =>
          /\ UNCHANGED <<data, loadedRecords, hasMore, totalRows, filters>>
          /\ UNCHANGED <<pageReqs, countReqs, refreshReqs>>]_vars

\* C33: against an unchanging backend that always answers, a second
\* reload() made before any append ends in the same data, loadedRecords,
\* hasMore, totalRows, columnOrder and visibleColumns as the first alone:
\* made while a fetch is outstanding it changes nothing at all, and made
\* after that fetch was answered it brings back, once its own fetch is
\* answered, the values the first call had left.
C33_ResetIdempotent ==
    /\ [][(ReloadCall /\ call.resets = 1 /\ isLoading) =>
             UNCHANGED <<engine, net, timers, dom, layout>>]_vars
    /\ [](call.resets = 2 /\ call.settled /\ pageReqs = <<>> => ReloadFields = call.once)

\* The rows the backend selects for the filters as they are now.
CurrentResult == Result(FilterParams(filters, columns), backendRows)

\* C34: whenever no page fetch is outstanding (and no filter edit is still
\* waiting for its debounce timer), data holds exactly the first
\* loadedRecords rows of the backend's result for the current filters, in
\* backend order, without gaps or duplicates.
C34_RowsArePrefix ==
    (pageReqs = <<>> /\ filterTimeout = 0) =>
        /\ loadedRecords <= Len(CurrentResult)
        /\ data = SubSeq(CurrentResult, 1, loadedRecords)

\* The page size a request was built with: it asked for one row more.
RequestPageSize(r) == r.count - 1

\* C35: a successful page response is compared against and truncated to the
\* page size its request was built with, whatever the page size is when it
\* arrives: hasMore tells whether the lookahead row came back, and the rows
\* merged are the first page-size rows of the response.
C35_RequestTimePageSize ==
    [][\A i \in 1..Len(pageReqs) :
          PageResponse(i, TRUE) =>
            LET r    == pageReqs[i]
                rows == Returned(r)
                ps   == RequestPageSize(r)
            IN  /\ hasMore' = (Len(rows) > ps)
                /\ data' = MergeRows(r.append, data, SubSeq(rows, 1, Min(ps, Len(rows))))]_vars

\* C36: a reset-and-reload whose loadData call was dropped because a page
\* fetch was outstanding (an append, or a fetch for other filters) is not
\* lost: once that fetch has completed, a reset fetch at offset 0 with the
\* current filters and page size is eventually issued, with no further
\* action of the user.
C36_ResetNeverLost ==
    (call.resets = 1 /\ call.dropped /\ ~call.covered /\ pageReqs = <<>>) ~> ResetOutstanding

\* C37: isLoading is true exactly while a loadData page fetch is
\* outstanding: it is set when the request is sent and cleared by every way
\* the response can end (merged and rendered, fetch rejected, body not
\* decodable, exception thrown after the merge), so the guard never refuses
\* loads when no fetch is outstanding.
C37_LoadingWhileOutstanding == isLoading <=> (pageReqs # <<>>)

\* C37 witness: a reset response was merged and then the try block threw:
\* the placeholder is shown over rows that are held, the flag is clear and
\* the fit-on-screen timer is set.
C37_Witness ==
    /\ ~isLoading
    /\ pageReqs = <<>>
    /\ view = "error"
    /\ loadedRecords > 0
    /\ data # <<>>
    /\ checkTimers = 1

\* C38: whenever totalRows is known (a number, not null and not the NaN of
\* a count answer without a count) it is at least loadedRecords: the
\* counter never shows more rows loaded than the total.
C38_TotalAtLeastLoaded == totalRows \notin {Null, NaN} => totalRows >= loadedRecords

\* The ids of a sequence other than id, in their order.
Others(order, id) == SelectSeq(order, LAMBDA x : x # id)

\* C39: reorderColumns(draggedId, targetId) leaves columnOrder alone when
\* either id is not in it; otherwise the new order has the same length and
\* the same ids, holds draggedId at the index targetId had before, and
\* keeps all other ids in their relative order.  It never changes data,
\* loadedRecords, hasMore or filters.
C39_ReorderColumns ==
    [][\A d \in DragIds, t \in DragIds :
          ReorderColumns(d, t) =>
            /\ UNCHANGED <<data, loadedRecords, hasMore, filters>>
            /\ IF d \in Range(columnOrder) /\ t \in Range(columnOrder)
               THEN /\ Len(columnOrder') = Len(columnOrder)
                    /\ Range(columnOrder') = Range(columnOrder)
                    /\ columnOrder'[IndexOf(columnOrder, <<t>>)] = d
                    /\ Others(columnOrder', d) = Others(columnOrder, d)
               ELSE columnOrder' = columnOrder]_vars

\* C39 witness: the first column was dropped on the last one of three, an
\* order that no cookie and no response gives.
C39_Witness ==
    /\ view = "table"
    /\ columnOrder = <<"c2", "c3", "c1">>
    /\ Ids(columns) = <<"c1", "c2", "c3">>

\* The page the paged table points at, under the filters as they are now.
LegacyCurrentRows ==
    Slice(Result(LegacyFilterParams(filters, columns), backendRows),
          currentPage * pageSize, pageSize)

\* C40: in the paged table of info.js, once every outstanding response has
\* been applied (no filter edit waiting for its timer, the table shown),
\* the rows held are those of page currentPage under the current filters,
\* the request issued last, in whatever order the responses arrived and
\* with no fetch having failed; and currentPage is never negative.
C40_LastRequestWins ==
    /\ currentPage >= 0
    /\ (session = "legacy" /\ pageReqs = <<>> /\ filterTimeout = 0 /\ view = "table"
          /\ ~call.failed)
         => data = LegacyCurrentRows
====
